---------------------------- MODULE Spec2Model ----------------------------
(***************************************************************************)
(* A model of WordleAssist: the interactive helper protableword.py (its    *)
(* word predicate check_word, the forbidden-position parser, the merge of  *)
(* a turn into the master constraints, the brute-force and the chunked     *)
(* lexicon filter pass) and the batch driver wordl.py (one process_chunk   *)
(* worker per first letter, collected in completion order).                *)
(*                                                                         *)
(* Strings are sequences of one-character strings: the word "ab" is        *)
(* <<"a","b">>.  Python indices are 0-based, sequences here are 1-based:   *)
(* word[pos] in the source is word[pos + 1] here.                          *)
(***************************************************************************)
EXTENDS Integers, Sequences, FiniteSets, TLC

VARIABLES
    pc,                         \* position of the control thread
    error,                      \* the uncaught exception that ended the run, or "none"
    word_length,                \* protableword.py:70 / wordl.py:26
    use_dict,                   \* protableword.py:71
    dict_file,                  \* words.txt: None (no such file) or Some(set of lines)
    combos_file,                \* illegalcombos.txt: None or Some(set of lines)
    dictionary,                 \* None or Some(set of words)
    illegal_combos,             \* set of two-character strings
    possible_words,             \* None or Some(list of words)
    use_bruteforce,             \* protableword.py:76/80
    master_excluded,            \* protableword.py:85
    master_required,            \* protableword.py:86
    master_known_positions,     \* protableword.py:87
    master_forbidden_positions, \* protableword.py:88, an insertion-ordered dict
    turn,                       \* protableword.py:90
    forbidden_positions,        \* protableword.py:99 (this turn's dict) / wordl.py:23
    fp,                         \* the entry the parser read last (protableword.py:101)
    reported,                   \* "Invalid format" messages printed this turn
    entries_read,               \* non-blank entries read this turn
    overwrote,                  \* history: some turn replaced a fixed green by another letter
    output_file,                \* None or Some(list of lines) of output.txt
    chunks,                     \* protableword.py:146
    results,                    \* per chunk: None (worker running) or Some(outcome)
    excluded_letters,           \* check_word argument / wordl.py:8
    required_letters,           \* check_word argument / wordl.py:12
    known_positions,            \* check_word argument / wordl.py:17
    word,                       \* check_word argument
    outcome,                    \* what check_word did on word
    pending,                    \* wordl.py:96 futures not yet yielded by as_completed
    all_words                   \* wordl.py:93

vars == << pc, error, word_length, use_dict, dict_file, combos_file, dictionary,
           illegal_combos, possible_words, use_bruteforce, master_excluded,
           master_required, master_known_positions, master_forbidden_positions,
           turn, forbidden_positions, fp, reported, entries_read, overwrote,
           output_file, chunks, results, excluded_letters, required_letters,
           known_positions, word, outcome, pending, all_words >>

---------------------------------------------------------------------------
(* Bounds of the model *)

\* letters of the alphabet that are modelled (the source has 26)
AlphabetSize == 2

\* largest word length entered
MaxWordLen == 2

\* turns of one session
MaxTurns == 2

\* non-blank forbidden-position entries typed in one turn
MaxEntries == 1

\* largest os.cpu_count()
MaxWorkers == 2

---------------------------------------------------------------------------
(* Values *)

\* Python's None for an optional value; Some(x) is a value that is present
None == << >>

Some(x) == << x >>

IsNone(o) == o = << >>

Get(o) == o[1]

\* None in a slot of a known-positions list (the other slots hold a character)
NoneSlot == "None"

RetTrue == "True"

RetFalse == "False"

IndexError == "IndexError"

Letters == << "a", "b", "c", "d" >>

\* protableword.py:129, wordl.py:27, in order, cut to AlphabetSize letters
alphabet == [i \in 1..AlphabetSize |-> Letters[i]]

Range(s) == { s[i] : i \in 1..Len(s) }

AlphabetSet == Range(alphabet)

RECURSIVE Flatten(_)
\* [w for sublist in lists for w in sublist]
Flatten(lists) ==
    IF lists = << >> THEN << >> ELSE Head(lists) \o Flatten(Tail(lists))

RECURSIVE product(_)
\* itertools.product(alphabet, repeat=n) for n >= 0, in the order it yields:
\* one empty tuple for n = 0
product(n) ==
    IF n = 0 THEN << << >> >>
    ELSE LET rest == product(n - 1)
         IN  Flatten([i \in 1..Len(alphabet) |->
                        [j \in 1..Len(rest) |-> << alphabet[i] >> \o rest[j]]])

\* every list that holds each element of the set S once: list(S) of a Python
\* set of strings, whose iteration order is not fixed
Orders(S) ==
    { s \in [1..Cardinality(S) -> S] : \A i, j \in 1..Cardinality(S) : s[i] = s[j] => i = j }

---------------------------------------------------------------------------
(* protableword.py: check_word *)

\* word[pos] for an index pos < len(word): a negative index counts from the end
\* and one below -len(word) raises IndexError (reported as None)
Subscript(w, pos) ==
    LET i == IF pos >= 0 THEN pos + 1 ELSE Len(w) + pos + 1
    IN  IF i >= 1 /\ i <= Len(w) THEN Some(w[i]) ELSE None

RECURSIVE KnownScan(_, _, _)
\* lines 43-45, from slot i on: "pass" when the loop ends without returning
KnownScan(w, known, i) ==
    IF i > Len(known) THEN "pass"
    ELSE IF known[i] = NoneSlot THEN KnownScan(w, known, i + 1)
    ELSE IF i > Len(w) THEN IndexError
    ELSE IF w[i] # known[i] THEN RetFalse
    ELSE KnownScan(w, known, i + 1)

RECURSIVE PositionsScan(_, _, _)
\* lines 47-49 for one letter
PositionsScan(w, letter, positions) ==
    IF positions = << >> THEN "pass"
    ELSE LET pos == Head(positions)
         IN  IF pos < Len(w)
             THEN IF IsNone(Subscript(w, pos)) THEN IndexError
                  ELSE IF << Get(Subscript(w, pos)) >> = letter THEN RetFalse
                  ELSE PositionsScan(w, letter, Tail(positions))
             ELSE PositionsScan(w, letter, Tail(positions))

RECURSIVE ForbiddenScan(_, _)
\* lines 46-49: the dict's items in insertion order
ForbiddenScan(w, forbidden) ==
    IF forbidden = << >> THEN "pass"
    ELSE LET r == PositionsScan(w, Head(forbidden).letter, Head(forbidden).positions)
         IN  IF r = "pass" THEN ForbiddenScan(w, Tail(forbidden)) ELSE r

\* lines 50-53
IllegalScan(w, illegal) ==
    IF illegal # {} /\ \E i \in 1..(Len(w) - 1) : SubSeq(w, i, i + 1) \in illegal
    THEN RetFalse ELSE "pass"

\* lines 35-54: "True", "False", or "IndexError" when a subscript raises
check_word(w, excluded, required, known, forbidden, dict, illegal) ==
    IF ~IsNone(dict) /\ w \notin Get(dict) THEN RetFalse
    ELSE IF \E i \in 1..Len(w) : w[i] \in excluded THEN RetFalse
    ELSE IF ~ \A ch \in required : \E i \in 1..Len(w) : w[i] = ch THEN RetFalse
    ELSE IF KnownScan(w, known, 1) # "pass" THEN KnownScan(w, known, 1)
    ELSE IF ForbiddenScan(w, forbidden) # "pass" THEN ForbiddenScan(w, forbidden)
    ELSE IF IllegalScan(w, illegal) # "pass" THEN RetFalse
    ELSE RetTrue

RECURSIVE Admitted(_, _, _, _, _, _, _)
\* [w for w in chunk if check_word(w, ...)], for a chunk on which no call raises
Admitted(chunk, excluded, required, known, forbidden, dict, illegal) ==
    IF chunk = << >> THEN << >>
    ELSE (IF check_word(Head(chunk), excluded, required, known, forbidden, dict, illegal) = RetTrue
          THEN << Head(chunk) >> ELSE << >>)
         \o Admitted(Tail(chunk), excluded, required, known, forbidden, dict, illegal)

\* lines 56-60, when a call of check_word raises: the worker's future holds
\* the exception instead of a list
filter_chunk_raises(chunk, excluded, required, known, forbidden, dict, illegal) ==
    \E i \in 1..Len(chunk) :
        check_word(chunk[i], excluded, required, known, forbidden, dict, illegal) = IndexError

\* lines 56-60: the admitted words of the chunk, in the chunk's order
filter_chunk(chunk, excluded, required, known, forbidden, dict, illegal) ==
    Admitted(chunk, excluded, required, known, forbidden, dict, illegal)

---------------------------------------------------------------------------
(* protableword.py: reading the input *)

Digits == << "0", "1", "2", "3", "4", "5", "6", "7", "8", "9" >>

IsDigit(c) == \E d \in 1..10 : Digits[d] = c

DigitValue(c) == (CHOOSE d \in 1..10 : Digits[d] = c) - 1

RECURSIVE split(_, _)
\* str.split(sep) for a one-character separator
split(s, sep) ==
    IF \A i \in 1..Len(s) : s[i] # sep THEN << s >>
    ELSE LET i == CHOOSE k \in 1..Len(s) :
                      s[k] = sep /\ \A j \in 1..(k - 1) : s[j] # sep
         IN  << SubSeq(s, 1, i - 1) >> \o split(SubSeq(s, i + 1, Len(s)), sep)

RECURSIVE Decimal(_)
Decimal(ds) ==
    IF ds = << >> THEN 0
    ELSE 10 * Decimal(SubSeq(ds, 1, Len(ds) - 1)) + DigitValue(ds[Len(ds)])

\* the digits of a token after its optional sign
Unsigned(tok) ==
    IF tok # << >> /\ Head(tok) \in { "-", "+" } THEN Tail(tok) ELSE tok

\* whether int(tok) returns: an optional sign, then one digit or more
IsInt(tok) ==
    Unsigned(tok) # << >> /\ \A i \in 1..Len(Unsigned(tok)) : IsDigit(Unsigned(tok)[i])

\* int(tok) where it returns
int(tok) ==
    IF tok # << >> /\ Head(tok) = "-" THEN 0 - Decimal(Unsigned(tok))
    ELSE Decimal(Unsigned(tok))

\* lines 105-106: Some([letter, positions]) or None when a statement of the
\* try block raises (a split that does not unpack into two, an int() that fails)
ParseEntry(e) ==
    LET parts == split(e, ":")
    IN  IF Len(parts) # 2 THEN None
        ELSE LET toks == IF \E i \in 1..Len(parts[2]) : parts[2][i] = ","
                         THEN split(parts[2], ",") ELSE << parts[2] >>
             IN  IF \E i \in 1..Len(toks) : ~IsInt(toks[i]) THEN None
                 ELSE Some([letter |-> parts[1],
                            positions |-> [i \in 1..Len(toks) |-> int(toks[i])]])

HasKey(d, letter) == \E k \in 1..Len(d) : d[k].letter = letter

\* lines 107-110 and 121-124: extend the letter's list, or add the letter as
\* the dict's newest key
AddPositions(d, letter, positions) ==
    IF HasKey(d, letter)
    THEN [k \in 1..Len(d) |->
            IF d[k].letter = letter
            THEN [letter |-> letter, positions |-> d[k].positions \o positions]
            ELSE d[k]]
    ELSE Append(d, [letter |-> letter, positions |-> positions])

\* line 97: the stripped, lowercased input padded to word_length with "_",
\* and "_" read as None
ParseKnown(input, wl) ==
    LET n == IF Len(input) >= wl THEN Len(input) ELSE wl
    IN  [i \in 1..n |-> IF i > Len(input) \/ input[i] = "_" THEN NoneSlot ELSE input[i]]

---------------------------------------------------------------------------
(* protableword.py: the merge of a turn into the master constraints *)

\* a merge that keeps only the turn's grays
MergeExcludedTurnOnly(master, delta) == delta

\* line 115
MergeExcluded(master, delta) == master \cup delta

\* a merge that keeps only the turn's required letters
MergeRequiredTurnOnly(master, delta) == delta

\* line 116
MergeRequired(master, delta) == master \cup delta

\* lines 117-119
MergeKnown(master, known, wl) ==
    [i \in 1..Len(master) |->
        IF i <= wl /\ known[i] # NoneSlot THEN known[i] ELSE master[i]]

RECURSIVE MergeForbidden(_, _)
\* lines 120-124
MergeForbidden(master, delta) ==
    IF delta = << >> THEN master
    ELSE MergeForbidden(AddPositions(master, Head(delta).letter, Head(delta).positions),
                        Tail(delta))

---------------------------------------------------------------------------
(* protableword.py: the filter pass *)

\* a test that forgets "possible_words is None": every turn enumerates again
GenerateEveryTurn(bruteforce, candidates) == bruteforce

\* line 127
GenerateNow(bruteforce, candidates) == bruteforce /\ IsNone(candidates)

\* line 145, for a cpu count >= 1: Python's // on naturals
ChunkSize(n, cpus) == IF n \div cpus >= 1 THEN n \div cpus ELSE 1

\* slices for the whole multiples of chunk_size only: the shorter last slice is lost
MakeChunksWhole(list, size) ==
    [k \in 1..(Len(list) \div size) |-> SubSeq(list, (k - 1) * size + 1, k * size)]

\* line 146: the slices possible_words[i:i+chunk_size] for i in range(0, len, chunk_size)
MakeChunks(list, size) ==
    LET n == (Len(list) + size - 1) \div size
    IN  [k \in 1..n |->
            SubSeq(list, (k - 1) * size + 1,
                   IF k * size <= Len(list) THEN k * size ELSE Len(list))]

\* the words check_word is called on in the filter pass (lines 132-133 or the
\* previous list)
Candidates(bruteforce, candidates, wl) ==
    IF GenerateNow(bruteforce, candidates) THEN product(wl) ELSE Get(candidates)

---------------------------------------------------------------------------
(* The inputs of a session *)

Rep(c, n) == [i \in 1..n |-> c]

\* the lines of words.txt when it exists, stripped: for each length up to
\* MaxWordLen + 1 three words, and a blank line
DictLines ==
    { << >> } \cup
    UNION { { Rep(alphabet[1], n),
              Rep(alphabet[1], n - 1) \o << alphabet[2] >>,
              << alphabet[2] >> \o Rep(alphabet[1], n - 1) } : n \in 1..(MaxWordLen + 1) }

\* the lines of illegalcombos.txt when it exists, stripped
ComboLines == { << alphabet[1], alphabet[2] >>, << alphabet[2] >> }

\* a non-negative number below ten, or the negative of one, as typed
Typed(n) == IF n < 0 THEN << "-", Digits[1 - n] >> ELSE << Digits[n + 1] >>

\* what is typed at "Enter word length: "
WordLengthInputs == { Typed(n) : n \in (0 - 1)..MaxWordLen } \cup { << "x" >> }

\* what is typed at "Use dictionary? (y/n): ", stripped and lowercased
UseDictInputs == { "y", "n" }

\* what is typed at the grays prompt, as the set of its characters
ExcludedInputs == { {}, { alphabet[AlphabetSize] } }

\* what is typed at the "anywhere" prompt, as the set of its characters
RequiredInputs == { {}, { alphabet[1] } }

\* what is typed at the greens prompt: nothing, or one letter in one slot
KnownInputs ==
    { << >> } \cup
    { Rep("_", i - 1) \o << c >> : i \in 1..MaxWordLen, c \in AlphabetSet }

\* entries of the form letter:pos[,pos] that name positions from 0 on
PlainEntries ==
    { << c, ":" >> \o Typed(n) : c \in AlphabetSet, n \in 0..MaxWordLen }
    \cup { << alphabet[1], ":" >> \o Typed(0) \o << "," >> \o Typed(1) }

\* entries that are not of the form one letter, a colon, and one or more
\* comma-separated non-negative indices
OddEntries ==
    { << alphabet[1] >> \o Typed(0),                                   \* a0
      << alphabet[1], ":" >> \o Typed(0) \o << ":" >> \o Typed(1),     \* a:0:1
      << alphabet[1], ":", "x" >>,                                     \* a:x
      << alphabet[1], ":" >>,                                          \* a:
      << alphabet[1], ":" >> \o Typed(0) \o << "," >>,                 \* a:0,
      << alphabet[1], ":" >> \o Typed(0 - 1),                          \* a:-1
      << alphabet[1], ":" >> \o Typed(0 - (MaxWordLen + 1)),           \* a:-3
      << ":" >> \o Typed(0),                                           \* :0
      << alphabet[1], alphabet[2], ":" >> \o Typed(0) }                \* ab:0

\* what is typed at the yellow prompt, stripped and lowercased, when not blank
EntryInputs == PlainEntries \cup OddEntries

\* the entries typed in the sessions of more than one turn
SessionEntries ==
    { << alphabet[1], ":" >> \o Typed(0),                              \* a:0
      << alphabet[2], ":" >> \o Typed(1),                              \* b:1
      << alphabet[1], ":" >> \o Typed(MaxWordLen),                     \* a:2
      << alphabet[1], ":" >> \o Typed(0 - 1),                          \* a:-1
      << alphabet[1], ":" >> \o Typed(0 - (MaxWordLen + 1)),           \* a:-3
      << alphabet[1], ":", "x" >> }                                    \* a:x

---------------------------------------------------------------------------
(* protableword.py: main *)

\* lines 12-20
load_dictionary(file, wl) ==
    IF IsNone(file) THEN None
    ELSE Some({ line \in Get(file) : Len(line) = wl })

\* lines 22-33
load_illegal_combos(file) ==
    IF IsNone(file) THEN {}
    ELSE { line \in Get(file) : Len(line) = 2 }

Idle ==
    /\ chunks = << >> /\ results = << >>
    /\ excluded_letters = {} /\ required_letters = {} /\ known_positions = << >>
    /\ word = << >> /\ outcome = "none"
    /\ pending = {} /\ all_words = << >>

Init ==
    /\ pc = "start"
    /\ error = "none"
    /\ word_length = 0
    /\ use_dict = "n"
    /\ dict_file \in { None, Some(DictLines) }
    /\ combos_file \in { None, Some(ComboLines) }
    /\ dictionary = None
    /\ illegal_combos = {}
    /\ possible_words = None
    /\ use_bruteforce = FALSE
    /\ master_excluded = {}
    /\ master_required = {}
    /\ master_known_positions = << >>
    /\ master_forbidden_positions = << >>
    /\ turn = 0
    /\ forbidden_positions = << >>
    /\ fp = << >>
    /\ reported = 0
    /\ entries_read = 0
    /\ overwrote = FALSE
    /\ output_file = None
    /\ Idle

Crash(name) ==
    /\ pc' = "crashed"
    /\ error' = name

\* lines 69-90: the prompts before the first turn
Start(wl, ud) ==
    /\ pc = "start"
    /\ IF ~IsInt(wl)
       THEN /\ Crash("ValueError")                       \* line 70, before line 71
            /\ UNCHANGED << word_length, use_dict, dictionary, possible_words,
                            use_bruteforce, illegal_combos, master_known_positions,
                            turn >>
       ELSE /\ word_length' = int(wl)
            /\ use_dict' = ud
            /\ IF ud = "y" /\ IsNone(load_dictionary(dict_file, int(wl)))
               THEN /\ Crash("TypeError")                \* line 75: list(None)
                    /\ dictionary' = None
                    /\ UNCHANGED << possible_words, use_bruteforce, illegal_combos,
                                    master_known_positions, turn >>
               ELSE /\ IF ud = "y"
                       THEN /\ dictionary' = load_dictionary(dict_file, int(wl))
                            /\ \E order \in Orders(Get(load_dictionary(dict_file, int(wl)))) :
                                  possible_words' = Some(order)
                            /\ use_bruteforce' = FALSE
                       ELSE /\ dictionary' = None
                            /\ possible_words' = None
                            /\ use_bruteforce' = TRUE
                    /\ illegal_combos' = load_illegal_combos(combos_file)
                    /\ master_known_positions' = Rep(NoneSlot, int(wl))
                    /\ turn' = 1
                    /\ pc' = "entries"
                    /\ error' = error
    /\ UNCHANGED << dict_file, combos_file, master_excluded, master_required,
                    master_forbidden_positions, forbidden_positions, fp, reported,
                    entries_read, overwrote, output_file, chunks, results,
                    excluded_letters, required_letters, known_positions, word,
                    outcome, pending, all_words >>

\* lines 100-112: one non-blank answer at the yellow prompt
ReadEntry(e) ==
    /\ pc = "entries"
    /\ entries_read < MaxEntries
    /\ fp' = e
    /\ entries_read' = entries_read + 1
    /\ IF IsNone(ParseEntry(e))
       THEN /\ reported' = reported + 1
            /\ forbidden_positions' = forbidden_positions
       ELSE /\ reported' = reported
            /\ forbidden_positions' =
                  AddPositions(forbidden_positions, Get(ParseEntry(e)).letter,
                               Get(ParseEntry(e)).positions)
    /\ UNCHANGED << pc, error, word_length, use_dict, dict_file, combos_file,
                    dictionary, illegal_combos, possible_words, use_bruteforce,
                    master_excluded, master_required, master_known_positions,
                    master_forbidden_positions, turn, overwrote, output_file,
                    chunks, results, excluded_letters, required_letters,
                    known_positions, word, outcome, pending, all_words >>

\* lines 94-97 and 102-168: the blank answer that ends the yellow prompt, the
\* merge, the filter pass and the save.  excluded, required and known are the
\* answers read at lines 94-97, which nothing uses before the merge.
FinishTurn(excluded, required, known_input, cpus) ==
    LET known    == ParseKnown(known_input, word_length)
        m_excl   == MergeExcluded(master_excluded, excluded)
        m_req    == MergeRequired(master_required, required)
        m_known  == MergeKnown(master_known_positions, known, word_length)
        m_forb   == MergeForbidden(master_forbidden_positions, forbidden_positions)
        generate == GenerateNow(use_bruteforce, possible_words)
        cands    == Candidates(use_bruteforce, possible_words, word_length)
        parts    == MakeChunks(cands, ChunkSize(Len(cands), cpus))
        outs     == [k \in 1..Len(parts) |->
                        filter_chunk(parts[k], m_excl, m_req, m_known, m_forb,
                                     dictionary, illegal_combos)]
        kept     == IF generate
                    THEN Admitted(cands, m_excl, m_req, m_known, m_forb,
                                  dictionary, illegal_combos)
                    ELSE Flatten(outs)
    IN  /\ pc = "entries"
        /\ master_excluded' = m_excl
        /\ master_required' = m_req
        /\ master_known_positions' = m_known
        /\ master_forbidden_positions' = m_forb
        /\ overwrote' = (overwrote \/ \E i \in 1..Len(m_known) :
                            /\ master_known_positions[i] # NoneSlot
                            /\ m_known[i] # master_known_positions[i])
        /\ fp' = << >>
        /\ IF generate /\ word_length < 0
           THEN /\ Crash("ValueError")            \* line 132: a negative repeat
                /\ UNCHANGED << possible_words, output_file >>
           ELSE IF filter_chunk_raises(cands, m_excl, m_req, m_known, m_forb,
                                       dictionary, illegal_combos)
           THEN /\ Crash(IndexError)              \* line 48: word[pos], pos < -len(word)
                /\ UNCHANGED << possible_words, output_file >>
           ELSE /\ possible_words' = Some(kept)
                /\ output_file' = Some(kept)      \* line 162
                /\ pc' = "ask"
                /\ error' = error
        /\ UNCHANGED << word_length, use_dict, dict_file, combos_file, dictionary,
                        illegal_combos, use_bruteforce, turn, forbidden_positions,
                        reported, entries_read, chunks, results, excluded_letters,
                        required_letters, known_positions, word, outcome, pending,
                        all_words >>

\* lines 170-173 with the answer "y", and lines 92-99 of the next turn
NextTurn ==
    /\ pc = "ask"
    /\ turn < MaxTurns
    /\ turn' = turn + 1
    /\ pc' = "entries"
    /\ forbidden_positions' = << >>
    /\ reported' = 0
    /\ entries_read' = 0
    /\ UNCHANGED << error, word_length, use_dict, dict_file, combos_file, dictionary,
                    illegal_combos, possible_words, use_bruteforce, master_excluded,
                    master_required, master_known_positions,
                    master_forbidden_positions, fp, overwrote, output_file, chunks,
                    results, excluded_letters, required_letters, known_positions,
                    word, outcome, pending, all_words >>

\* lines 170-175 with any other answer
EndGame ==
    /\ pc = "ask"
    /\ pc' = "ended"
    /\ UNCHANGED << error, word_length, use_dict, dict_file, combos_file, dictionary,
                    illegal_combos, possible_words, use_bruteforce, master_excluded,
                    master_required, master_known_positions,
                    master_forbidden_positions, turn, forbidden_positions, fp,
                    reported, entries_read, overwrote, output_file, chunks, results,
                    excluded_letters, required_letters, known_positions, word,
                    outcome, pending, all_words >>

Next ==
    \/ \E wl \in WordLengthInputs, ud \in UseDictInputs : Start(wl, ud)
    \/ \E e \in SessionEntries : ReadEntry(e)
    \/ \E excluded \in ExcludedInputs, required \in RequiredInputs,
          known_input \in KnownInputs, cpus \in 1..MaxWorkers :
          FinishTurn(excluded, required, known_input, cpus)
    \/ NextTurn
    \/ EndGame

Spec == Init /\ [][Next]_vars

\* a session of one turn, with every entry of EntryInputs at the yellow prompt
NextOneTurn ==
    \/ \E wl \in WordLengthInputs, ud \in UseDictInputs : Start(wl, ud)
    \/ \E e \in EntryInputs : ReadEntry(e)
    \/ \E excluded \in ExcludedInputs, required \in RequiredInputs,
          known_input \in KnownInputs, cpus \in 1..MaxWorkers :
          FinishTurn(excluded, required, known_input, cpus)
    \/ EndGame

SpecOneTurn == Init /\ [][NextOneTurn]_vars

---------------------------------------------------------------------------
(* The session's claims *)

\* the words the session started from: the loaded lexicon, or every string of
\* length word_length over the alphabet
Source == IF use_bruteforce THEN Range(product(word_length)) ELSE Get(dictionary)

\* the words of the source that check_word admits under the master constraints
AdmittedFromScratch ==
    { w \in Source :
        check_word(w, master_excluded, master_required, master_known_positions,
                   master_forbidden_positions, dictionary, illegal_combos) = RetTrue }

\* list a is a prefix of list b
IsPrefix(a, b) == Len(a) <= Len(b) /\ SubSeq(b, 1, Len(a)) = a

\* every letter key of the dict stays a key and its list only gets longer
ForbiddenOnlyGrows ==
    \A k \in 1..Len(master_forbidden_positions) :
        \E j \in 1..Len(master_forbidden_positions') :
            /\ master_forbidden_positions'[j].letter = master_forbidden_positions[k].letter
            /\ IsPrefix(master_forbidden_positions[k].positions,
                        master_forbidden_positions'[j].positions)

\* C1: merge monotonicity.  In lexicon mode and in brute-force mode, whatever
\* the turns' deltas are, the candidate list a turn produces holds only words
\* of the list the turn before produced: no rejected word comes back.
C1_MergeMonotonic ==
    [][ (~IsNone(possible_words) /\ ~IsNone(possible_words'))
            => Range(Get(possible_words')) \subseteq Range(Get(possible_words)) ]_vars

\* C1 witness: a second turn in brute-force mode has left some words and
\* dropped others
C1_Witness ==
    /\ pc = "ask" /\ turn = 2 /\ use_bruteforce
    /\ Get(possible_words) # << >>
    /\ Len(Get(possible_words)) < Len(product(word_length))

\* C4 as claimed: asked for dictionary mode without a dictionary file, the
\* session does not fail and goes on in brute-force mode with no lexicon.
C4_MissingDictionaryNonFatal ==
    (pc # "start" /\ error # "ValueError" /\ use_dict = "y" /\ IsNone(dict_file))
        => (pc # "crashed" /\ use_bruteforce /\ IsNone(dictionary))

\* C6 as claimed: the master constraints only grow, and a fixed green slot
\* keeps the constraint it imposed (its letter).
C6_NeverRetracted ==
    [][ /\ master_excluded \subseteq master_excluded'
        /\ master_required \subseteq master_required'
        /\ \A i \in 1..Len(master_known_positions) :
              master_known_positions[i] # NoneSlot
                  => master_known_positions'[i] = master_known_positions[i]
        /\ ForbiddenOnlyGrows ]_vars

\* C6 as amended: the grays and the required letters never lose an element, a
\* fixed green slot is never unfixed (a later turn may replace its letter), and
\* no letter's forbidden-position list loses an index or its key.
C6_OnlyGrows ==
    [][ /\ master_excluded \subseteq master_excluded'
        /\ master_required \subseteq master_required'
        /\ Len(master_known_positions') >= Len(master_known_positions)
        /\ \A i \in 1..Len(master_known_positions) :
              master_known_positions[i] # NoneSlot
                  => master_known_positions'[i] # NoneSlot
        /\ ForbiddenOnlyGrows ]_vars

\* C6 witness: a second turn has merged into non-empty master constraints and
\* replaced the letter of a fixed slot
C6_Witness ==
    /\ pc = "ask" /\ turn = 2 /\ overwrote
    /\ master_excluded # {} /\ master_required # {}
    /\ master_forbidden_positions # << >>

\* C7 as claimed: in brute-force mode a word length of zero or below gives an
\* empty admitted list whatever the constraints are, and no crash.
C7_NonPositiveLengthEmpty ==
    (use_bruteforce /\ word_length <= 0 /\ pc \in { "ask", "ended", "crashed" })
        => (pc # "crashed" /\ possible_words = Some(<< >>))

\* C10 as claimed: after every completed turn the candidate list, and the
\* output file, hold exactly the words of the source that check_word admits
\* under the master constraints.
C10_EqualsFromScratch ==
    (pc = "ask") =>
        /\ Range(Get(possible_words)) = AdmittedFromScratch
        /\ output_file = possible_words

\* C10 as amended: the same, for the sessions in which no turn has named a
\* different letter for a green slot that was already fixed.
C10_EqualsFromScratchConsistent ==
    (pc = "ask" /\ ~overwrote) =>
        /\ Range(Get(possible_words)) = AdmittedFromScratch
        /\ output_file = possible_words

\* C10 witness: a second turn in lexicon mode, no green replaced, has left
\* some words of the lexicon and dropped others
C10_Witness ==
    /\ pc = "ask" /\ turn = 2 /\ ~overwrote /\ ~use_bruteforce
    /\ Get(possible_words) # << >>
    /\ Len(Get(possible_words)) < Cardinality(Get(dictionary))
    /\ master_forbidden_positions # << >>

\* whether an entry has the form the prompt asks for: one letter, a colon, and
\* one or more comma-separated non-negative position indices
IsLetter(c) == ~IsDigit(c) /\ c \notin { ":", ",", "-", "+", "_" }

WellFormedEntry(e) ==
    /\ Len(e) >= 3
    /\ IsLetter(e[1])
    /\ e[2] = ":"
    /\ LET toks == split(SubSeq(e, 3, Len(e)), ",")
       IN  \A i \in 1..Len(toks) :
              toks[i] # << >> /\ \A j \in 1..Len(toks[i]) : IsDigit(toks[i][j])

\* C5 as claimed: an entry that is not of the form letter:pos[,pos...] with
\* non-negative indices is reported, the prompt repeats, and the entry changes
\* neither the turn's forbidden-position map nor the master constraints.
C5_MalformedEntrySkipped ==
    [][ (pc = "entries" /\ entries_read' = entries_read + 1 /\ ~WellFormedEntry(fp'))
            => /\ pc' = "entries"
               /\ reported' = reported + 1
               /\ forbidden_positions' = forbidden_positions
               /\ UNCHANGED << master_excluded, master_required,
                               master_known_positions, master_forbidden_positions >> ]_vars

\* the entries the parser rejects (a split that does not give two parts, a
\* position int() refuses) are reported and change nothing
RejectedEntrySkipped ==
    [][ (pc = "entries" /\ entries_read' = entries_read + 1 /\ IsNone(ParseEntry(fp')))
            => /\ pc' = "entries"
               /\ reported' = reported + 1
               /\ forbidden_positions' = forbidden_positions
               /\ UNCHANGED << master_excluded, master_required,
                               master_known_positions, master_forbidden_positions >> ]_vars

---------------------------------------------------------------------------
(* check_word on its own: one call on arguments drawn from bounded sets *)

\* position indices a forbidden-position entry can name
PositionInputs == (0 - (MaxWordLen + 1))..MaxWordLen

\* forbidden-position dicts of one letter, or of the first two letters in
\* this order, each with one index
ForbiddenInputs ==
    { << >> }
    \cup { << [letter |-> << c >>, positions |-> << q >>] >> :
              c \in AlphabetSet, q \in PositionInputs }
    \cup { << [letter |-> << alphabet[1] >>, positions |-> << q >>],
              [letter |-> << alphabet[2] >>, positions |-> << r >>] >> :
              q \in PositionInputs, r \in PositionInputs }

InitCheck ==
    /\ pc = "call"
    /\ error = "none"
    /\ word_length \in 1..MaxWordLen
    /\ word \in Range(product(word_length))
    /\ excluded_letters \in SUBSET AlphabetSet
    /\ required_letters \in SUBSET AlphabetSet
    /\ known_positions \in [1..word_length -> AlphabetSet \cup { NoneSlot }]
    /\ forbidden_positions \in ForbiddenInputs
    /\ dictionary \in { None, Some(Range(product(word_length)) \ { Rep(alphabet[1], word_length) }) }
    /\ illegal_combos \in { {}, load_illegal_combos(Some(ComboLines)) }
    /\ outcome = "none"
    /\ use_dict = "n" /\ dict_file = None /\ combos_file = None
    /\ possible_words = None /\ use_bruteforce = FALSE
    /\ master_excluded = {} /\ master_required = {}
    /\ master_known_positions = << >> /\ master_forbidden_positions = << >>
    /\ turn = 0 /\ fp = << >> /\ reported = 0 /\ entries_read = 0
    /\ overwrote = FALSE /\ output_file = None
    /\ chunks = << >> /\ results = << >> /\ pending = {} /\ all_words = << >>

\* one call of check_word (protableword.py:35-54)
CallCheckWord ==
    /\ pc = "call"
    /\ outcome' = check_word(word, excluded_letters, required_letters, known_positions,
                             forbidden_positions, dictionary, illegal_combos)
    /\ pc' = "returned"
    /\ UNCHANGED << error, word_length, use_dict, dict_file, combos_file, dictionary,
                    illegal_combos, possible_words, use_bruteforce, master_excluded,
                    master_required, master_known_positions,
                    master_forbidden_positions, turn, forbidden_positions, fp,
                    reported, entries_read, overwrote, output_file, chunks, results,
                    excluded_letters, required_letters, known_positions, word,
                    pending, all_words >>

NextCheck == CallCheckWord

SpecCheck == InitCheck /\ [][NextCheck]_vars

\* the six conditions of the word predicate's contract, where a listed
\* position is in range when 0 <= pos < len(word)
AdmitContract(w, excluded, required, known, forbidden, dict, illegal) ==
    /\ IsNone(dict) \/ w \in Get(dict)
    /\ \A i \in 1..Len(w) : w[i] \notin excluded
    /\ \A ch \in required : \E i \in 1..Len(w) : w[i] = ch
    /\ \A i \in 1..Len(known) : known[i] # NoneSlot => w[i] = known[i]
    /\ \A k \in 1..Len(forbidden) : \A j \in 1..Len(forbidden[k].positions) :
          LET pos == forbidden[k].positions[j]
          IN  (pos >= 0 /\ pos < Len(w)) => << w[pos + 1] >> # forbidden[k].letter
    /\ \A i \in 1..(Len(w) - 1) : SubSeq(w, i, i + 1) \notin illegal

\* C2 as claimed: check_word returns True exactly when the six conditions
\* hold and False otherwise.
C2_CheckWordContract ==
    (pc = "returned") =>
        outcome = IF AdmitContract(word, excluded_letters, required_letters,
                                   known_positions, forbidden_positions, dictionary,
                                   illegal_combos)
                  THEN RetTrue ELSE RetFalse

NonNegative(forbidden) ==
    \A k \in 1..Len(forbidden) : \A j \in 1..Len(forbidden[k].positions) :
        forbidden[k].positions[j] >= 0

\* the contract does hold on the constraint sets that name no negative index
CheckWordContractNonNegative ==
    (pc = "returned" /\ NonNegative(forbidden_positions)) =>
        outcome = IF AdmitContract(word, excluded_letters, required_letters,
                                   known_positions, forbidden_positions, dictionary,
                                   illegal_combos)
                  THEN RetTrue ELSE RetFalse

\* the dict with the indices outside 0..n-1 taken out of every list
InRangeOnly(forbidden, n) ==
    LET InRange(pos) == pos >= 0 /\ pos < n
    IN  [k \in 1..Len(forbidden) |->
            [letter |-> forbidden[k].letter,
             positions |-> SelectSeq(forbidden[k].positions, InRange)]]

\* C9 as claimed: the indices outside 0..wordLength-1, negative ones
\* included, have no effect on what check_word returns.
C9_OutOfRangeIgnored ==
    (pc = "returned") =>
        outcome = check_word(word, excluded_letters, required_letters, known_positions,
                             InRangeOnly(forbidden_positions, Len(word)), dictionary,
                             illegal_combos)

\* the dict with the indices at or above n taken out of every list
BelowOnly(forbidden, n) ==
    LET Below(pos) == pos < n
    IN  [k \in 1..Len(forbidden) |->
            [letter |-> forbidden[k].letter,
             positions |-> SelectSeq(forbidden[k].positions, Below)]]

\* the indices at or above the word length do have no effect
AtOrAboveLengthIgnored ==
    (pc = "returned") =>
        outcome = check_word(word, excluded_letters, required_letters, known_positions,
                             BelowOnly(forbidden_positions, Len(word)), dictionary,
                             illegal_combos)

---------------------------------------------------------------------------
(* protableword.py:145-160 on its own: the chunked filter pass of one turn,  *)
(* after the merge, with the workers finishing in any order                 *)

\* longest candidate list of the chunked pass
MaxList == 5

Min(a, b) == IF a <= b THEN a ELSE b

\* the word length of the chunked pass: long enough for MaxList words
ChunkWordLen == MaxWordLen + 1

\* candidate lists: the slices of the enumeration of the words of that length
ListInputs ==
    LET all == product(ChunkWordLen)
        n   == Min(Len(all), MaxList)
    IN  { SubSeq(all, i, j) : i \in 1..(n + 1), j \in 0..n }

InitChunks ==
    /\ pc = "dispatch"
    /\ error = "none"
    /\ word_length = ChunkWordLen
    /\ use_bruteforce \in BOOLEAN
    /\ \E list \in ListInputs :
          /\ possible_words = Some(list)
          /\ dictionary = IF use_bruteforce THEN None ELSE Some(Range(list))
    /\ use_dict = IF use_bruteforce THEN "n" ELSE "y"
    /\ master_excluded \in ExcludedInputs
    /\ master_required = {}
    /\ master_known_positions \in
          { ParseKnown(k, ChunkWordLen) : k \in { << >>, << alphabet[1] >> } }
    /\ master_forbidden_positions \in
          { << >>,
            << [letter |-> << alphabet[2] >>, positions |-> << 1 >>] >>,
            << [letter |-> << alphabet[1] >>, positions |-> << 0 - (ChunkWordLen + 1) >>] >> }
    /\ illegal_combos = {}
    /\ dict_file = None /\ combos_file = None
    /\ turn = 1 /\ forbidden_positions = << >> /\ fp = << >>
    /\ reported = 0 /\ entries_read = 0 /\ overwrote = FALSE /\ output_file = None
    /\ Idle

ChunkVarsUnchanged ==
    UNCHANGED << word_length, use_dict, dict_file, combos_file, dictionary,
                 illegal_combos, use_bruteforce, master_excluded, master_required,
                 master_known_positions, master_forbidden_positions, turn,
                 forbidden_positions, fp, reported, entries_read, overwrote,
                 excluded_letters, required_letters, known_positions, word, outcome,
                 pending, all_words >>

\* lines 145-158: the chunks are cut and filter_chunk is submitted for each chunk
Dispatch(cpus) ==
    /\ pc = "dispatch"
    /\ chunks' = MakeChunks(Get(possible_words),
                            ChunkSize(Len(Get(possible_words)), cpus))
    /\ results' = [k \in 1..Len(chunks') |-> None]
    /\ pc' = "filtering"
    /\ UNCHANGED << error, possible_words, output_file >>
    /\ ChunkVarsUnchanged

\* a worker finishes filter_chunk on chunk k (lines 56-60)
WorkerDone(k) ==
    /\ pc = "filtering"
    /\ k \in 1..Len(chunks)
    /\ IsNone(results[k])
    /\ LET raised == filter_chunk_raises(chunks[k], master_excluded, master_required,
                                         master_known_positions,
                                         master_forbidden_positions, dictionary,
                                         illegal_combos)
       IN  results' = [results EXCEPT ![k] =
              Some([raised |-> raised,
                    words  |-> IF raised THEN << >>
                               ELSE filter_chunk(chunks[k], master_excluded,
                                                 master_required, master_known_positions,
                                                 master_forbidden_positions, dictionary,
                                                 illegal_combos)])]
    /\ UNCHANGED << pc, error, possible_words, output_file, chunks >>
    /\ ChunkVarsUnchanged

\* lines 158-162: the pool has shut down (every worker is done), the results
\* are read in the chunks' order and the list is saved
Collect ==
    /\ pc = "filtering"
    /\ \A k \in 1..Len(chunks) : ~IsNone(results[k])
    /\ IF \E k \in 1..Len(chunks) : Get(results[k]).raised
       THEN /\ Crash(IndexError)
            /\ UNCHANGED << possible_words, output_file >>
       ELSE /\ possible_words' =
                  Some(Flatten([k \in 1..Len(chunks) |-> Get(results[k]).words]))
            /\ output_file' = possible_words'
            /\ pc' = "ask"
            /\ error' = error
    /\ UNCHANGED << chunks, results >>
    /\ ChunkVarsUnchanged

NextChunks ==
    \/ \E cpus \in 1..MaxWorkers : Dispatch(cpus)
    \/ \E k \in 1..MaxList : WorkerDone(k)
    \/ Collect

SpecChunks == InitChunks /\ [][NextChunks]_vars

\* C3: chunk-partition equivalence.  The chunks are non-empty contiguous
\* slices whose concatenation is the candidate list (each word in exactly one
\* chunk), and whatever order the workers finished in, the list collected is
\* the sequence check_word admits when applied to the whole list in order.
C3_ChunkPartitionEquivalence ==
    /\ (pc = "filtering") =>
          /\ Flatten(chunks) = Get(possible_words)
          /\ \A k \in 1..Len(chunks) : chunks[k] # << >>
    /\ (pc = "ask") =>
          Get(possible_words) =
              Admitted(Flatten(chunks), master_excluded, master_required,
                       master_known_positions, master_forbidden_positions,
                       dictionary, illegal_combos)

\* C3 witness: a list cut into three chunks or more, the last one shorter,
\* has been filtered, with words kept and words dropped
C3_Witness ==
    /\ pc = "ask"
    /\ Len(chunks) >= 3
    /\ Len(chunks[Len(chunks)]) < Len(chunks[1])
    /\ Get(possible_words) # << >>
    /\ Len(Get(possible_words)) < Len(Flatten(chunks))

---------------------------------------------------------------------------
(* wordl.py *)

RECURSIVE WordlKnownScan(_, _, _, _)
\* wordl.py:64-66, from index i on
WordlKnownScan(w, known, i, wl) ==
    IF i > wl THEN "pass"
    ELSE IF known[i] # NoneSlot /\ w[i] # known[i] THEN RetFalse
    ELSE WordlKnownScan(w, known, i + 1, wl)

\* wordl.py:48-74 with USE_DICTIONARY = True, on a word of length word_length
\* (line 71 tests pos < word_length, which is len(word)): "True" for the
\* word returned, "False" for None
wordl_check_word(w, dict) ==
    IF ~IsNone(dict) /\ w \notin Get(dict) THEN RetFalse
    ELSE IF excluded_letters # {} /\ \E i \in 1..Len(w) : w[i] \in excluded_letters
    THEN RetFalse
    ELSE IF required_letters # {}
            /\ ~ \A ch \in required_letters : \E i \in 1..Len(w) : w[i] = ch
    THEN RetFalse
    ELSE IF WordlKnownScan(w, known_positions, 1, word_length) # "pass" THEN RetFalse
    ELSE IF ForbiddenScan(w, forbidden_positions) # "pass"
    THEN ForbiddenScan(w, forbidden_positions)
    ELSE RetTrue

\* a worker that enumerates the whole space instead of its own first letter
process_chunk_whole_space(start_letter, dict) ==
    LET Passes(w) == wordl_check_word(w, dict) = RetTrue
    IN  SelectSeq(product(word_length), Passes)

\* wordl.py:77-85
process_chunk(start_letter, dict) ==
    LET combos    == product(word_length - 1)
        Passes(w) == wordl_check_word(w, dict) = RetTrue
    IN  SelectSeq([j \in 1..Len(combos) |-> << start_letter >> \o combos[j]], Passes)

\* wordl.py:36-45 with USE_DICTIONARY = True: every non-blank line of the file
wordl_load_dictionary(file) ==
    IF IsNone(file) THEN None
    ELSE Some({ line \in Get(file) : line # << >> })

\* the constants of wordl.py:8-26 are drawn from bounded sets; the indices of
\* forbidden_positions are the 0-based positions its comments describe
InitWordl ==
    /\ pc = "running"
    /\ error = "none"
    /\ word_length \in 1..MaxWordLen
    /\ excluded_letters \in ExcludedInputs
    /\ required_letters \in RequiredInputs
    /\ known_positions \in { ParseKnown(k, word_length) : k \in KnownInputs }
    /\ Len(known_positions) = word_length
    /\ forbidden_positions \in
          { << >> } \cup
          { << [letter |-> << c >>, positions |-> << q >>] >> :
                c \in { alphabet[1] }, q \in 0..MaxWordLen }
    /\ dict_file \in { None, Some(DictLines) }
    /\ dictionary = wordl_load_dictionary(dict_file)
    /\ pending = AlphabetSet
    /\ all_words = << >>
    /\ output_file = None
    /\ use_dict = "y" /\ combos_file = None /\ illegal_combos = {}
    /\ possible_words = None /\ use_bruteforce = FALSE
    /\ master_excluded = {} /\ master_required = {}
    /\ master_known_positions = << >> /\ master_forbidden_positions = << >>
    /\ turn = 0 /\ fp = << >> /\ reported = 0 /\ entries_read = 0
    /\ overwrote = FALSE
    /\ chunks = << >> /\ results = << >> /\ word = << >> /\ outcome = "none"

WordlVarsUnchanged ==
    UNCHANGED << error, word_length, use_dict, dict_file, combos_file, dictionary,
                 illegal_combos, possible_words, use_bruteforce, master_excluded,
                 master_required, master_known_positions, master_forbidden_positions,
                 turn, forbidden_positions, fp, reported, entries_read, overwrote,
                 chunks, results, excluded_letters, required_letters,
                 known_positions, word, outcome >>

\* wordl.py:97-98: as_completed yields the future of one first letter, whichever
\* is done, and its result is appended
FutureCompleted(letter) ==
    /\ pc = "running"
    /\ letter \in pending
    /\ all_words' = all_words \o process_chunk(letter, dictionary)
    /\ pending' = pending \ { letter }
    /\ UNCHANGED << pc, output_file >>
    /\ WordlVarsUnchanged

\* wordl.py:100-106
SaveOutput ==
    /\ pc = "running"
    /\ pending = {}
    /\ output_file' = Some(all_words)
    /\ pc' = "saved"
    /\ UNCHANGED << pending, all_words >>
    /\ WordlVarsUnchanged

NextWordl ==
    \/ \E letter \in AlphabetSet : FutureCompleted(letter)
    \/ SaveOutput

SpecWordl == InitWordl /\ [][NextWordl]_vars

\* C8: whatever order the workers complete in, all_words never holds a word
\* twice, and once every future is collected it holds exactly the words of the
\* whole space that check_word admits, so its set is the same in every run.
C8_InterleavingIndependent ==
    /\ \A i, j \in 1..Len(all_words) : all_words[i] = all_words[j] => i = j
    /\ (pending = {}) =>
          Range(all_words) =
              { w \in Range(product(word_length)) :
                    wordl_check_word(w, dictionary) = RetTrue }

\* C8 witness: the run is saved with two words or more, collected in an order
\* that is not the enumeration's
C8_Witness ==
    /\ pc = "saved"
    /\ Len(all_words) >= 2
    /\ all_words[1][1] = alphabet[2]
    /\ all_words[Len(all_words)][1] = alphabet[1]

=============================================================================
